---- MODULE Spec2Model ----
(***************************************************************************)
(* A model of astrbot_plugin_memos_manager: the capability gate, the       *)
(* pagination-driven search pipeline, the archive-list composition and    *)
(* the pass-through mutations, as one tool invocation at a time that may  *)
(* suspend only at the note service's network call.                       *)
(*                                                                         *)
(* Text is modelled as a sequence of one-character strings, so that       *)
(* split/strip/isdigit/lower/substring are computed, never assumed.       *)
(* A formatted step of the audit trail is a sequence of atoms: the fixed  *)
(* pieces of the f-string and the characters of the interpolated values.  *)
(***************************************************************************)
EXTENDS Integers, Sequences, FiniteSets, TLC

VARIABLES
    config,     \* the host configuration mapping (key -> raw value)
    llm_tools,  \* the tools the constructor registered with the host
    tz,         \* the local zone's UTC offset in seconds (_local_tz)
    pc,         \* "idle" | "await" (suspended at a network call) | "done"
    tool,       \* name of the tool being invoked
    ctx,        \* the invocation context the host supplied
    kwargs,     \* the keyword arguments of the invocation
    auth,       \* the (allowed, reason, uid) decision of the gate
    loc,        \* the locals of the suspended operation body
    requests,   \* the requests sent to the note service by this invocation
    responses,  \* how the note service answered them, in order
    ret         \* what the invocation returned to its caller

vars == <<config, llm_tools, tz, pc, tool, ctx, kwargs, auth, loc, requests, responses, ret>>

----------------------------------------------------------------------------
(* Bounds of the model. *)

\* Most page requests the note service answers with a continuation cursor
\* in one invocation.
MaxPages == 2

\* Most records in one page of the note service.
MaxPageLen == 2

----------------------------------------------------------------------------
(* Generic helpers. *)

Min(a, b) == IF a <= b THEN a ELSE b

Max(a, b) == IF a >= b THEN a ELSE b

Range(s) == {s[i] : i \in 1..Len(s)}

\* Python s[:n] for n >= 0.
Take(s, n) == SubSeq(s, 1, Min(n, Len(s)))

RECURSIVE Flatten(_)
Flatten(ss) == IF ss = <<>> THEN <<>> ELSE Head(ss) \o Flatten(Tail(ss))

\* Python None / a value, for optional text, instants and flags.
None == [some |-> FALSE, v |-> <<>>]

Some(v) == [some |-> TRUE, v |-> v]

NoneInt == [some |-> FALSE, v |-> 0]

\* Python's empty dict.
EmptyDict == [k \in {} |-> 0]

----------------------------------------------------------------------------
(* Text: str methods on sequences of one-character strings. *)

UpperChars == <<"A", "B", "C", "D", "E", "F", "G", "H", "I", "J", "K", "L", "M",
                "N", "O", "P", "Q", "R", "S", "T", "U", "V", "W", "X", "Y", "Z">>

LowerChars == <<"a", "b", "c", "d", "e", "f", "g", "h", "i", "j", "k", "l", "m",
                "n", "o", "p", "q", "r", "s", "t", "u", "v", "w", "x", "y", "z">>

DigitChars == <<"0", "1", "2", "3", "4", "5", "6", "7", "8", "9">>

IsSpace(c) == c \in {" ", "\t", "\n"}

IsDigitChar(c) == c \in Range(DigitChars)

LowerChar(c) ==
    IF c \in Range(UpperChars)
    THEN LowerChars[CHOOSE i \in 1..Len(UpperChars) : UpperChars[i] = c]
    ELSE c

\* str.lower() / str.casefold() on the modelled alphabet.
Lower(s) == [i \in 1..Len(s) |-> LowerChar(s[i])]

RECURSIVE LStrip(_)
LStrip(s) == IF s # <<>> /\ IsSpace(Head(s)) THEN LStrip(Tail(s)) ELSE s

RECURSIVE RStrip(_)
RStrip(s) ==
    IF s # <<>> /\ IsSpace(s[Len(s)]) THEN RStrip(SubSeq(s, 1, Len(s) - 1)) ELSE s

\* str.strip()
Strip(s) == LStrip(RStrip(s))

\* str.isdigit(): non-empty and every character a digit.
IsDigit(s) == s # <<>> /\ \A i \in 1..Len(s) : IsDigitChar(s[i])

\* str.split(sep) for a one-character separator.
RECURSIVE Split(_, _)
Split(s, sep) ==
    IF \E i \in 1..Len(s) : s[i] = sep
    THEN LET i == CHOOSE k \in 1..Len(s) :
                      s[k] = sep /\ \A j \in 1..(k - 1) : s[j] # sep
         IN  <<SubSeq(s, 1, i - 1)>> \o Split(SubSeq(s, i + 1, Len(s)), sep)
    ELSE <<s>>

\* needle in haystack (substring test)
Contains(hay, needle) ==
    \E i \in 0..(Len(hay) - Len(needle)) :
        SubSeq(hay, i + 1, i + Len(needle)) = needle

\* str.startswith
StartsWith(s, p) == Len(s) >= Len(p) /\ SubSeq(s, 1, Len(p)) = p

\* "sep".join(parts)
RECURSIVE Join(_, _)
Join(parts, sep) ==
    IF parts = <<>> THEN <<>>
    ELSE IF Len(parts) = 1 THEN parts[1]
    ELSE parts[1] \o sep \o Join(Tail(parts), sep)

DigitValue(c) == (CHOOSE i \in 1..Len(DigitChars) : DigitChars[i] = c) - 1

RECURSIVE ParseNat(_)
ParseNat(s) ==
    IF s = <<>> THEN 0
    ELSE 10 * ParseNat(SubSeq(s, 1, Len(s) - 1)) + DigitValue(s[Len(s)])

----------------------------------------------------------------------------
(* Configuration: raw values of the host mapping and the typed accessors. *)

VStr(s) == [t |-> "str", s |-> s, n |-> 0, b |-> FALSE]

VInt(n) == [t |-> "int", s |-> <<>>, n |-> n, b |-> FALSE]

VBool(b) == [t |-> "bool", s |-> <<>>, n |-> 0, b |-> b]

\* The key is absent from the mapping: config.get returns the default.
VMissing == [t |-> "missing", s |-> <<>>, n |-> 0, b |-> FALSE]

_cfg_str(cfg, key, default) ==
    IF cfg[key].t = "str" THEN cfg[key].s ELSE default

\* int(value): an int, a bool (0/1) or a decimal string; anything else raises
\* TypeError/ValueError and the default is returned.
_cfg_int(cfg, key, default) ==
    LET value == cfg[key]
        parsed ==
            CASE value.t = "int" -> Some(value.n)
              [] value.t = "bool" -> Some(IF value.b THEN 1 ELSE 0)
              [] value.t = "str" /\ IsDigit(Strip(value.s)) ->
                    Some(ParseNat(Strip(value.s)))
              [] OTHER -> NoneInt
    IN  IF value.t = "missing" THEN default
        ELSE IF parsed.some /\ parsed.v > 0 THEN parsed.v ELSE default

TruthyWords == {<<"1">>, <<"t", "r", "u", "e">>, <<"y", "e", "s">>, <<"o", "n">>}

_cfg_bool(cfg, key, default) ==
    LET value == cfg[key]
    IN  CASE value.t = "bool" -> value.b
          [] value.t = "str" -> Lower(value.s) \in TruthyWords
          [] OTHER -> default

----------------------------------------------------------------------------
(* Fixed words of the program, as text. *)

W_display_time == <<"d", "i", "s", "p", "l", "a", "y", "_", "t", "i", "m", "e">>

W_create_time == <<"c", "r", "e", "a", "t", "e", "_", "t", "i", "m", "e">>

W_update_time == <<"u", "p", "d", "a", "t", "e", "_", "t", "i", "m", "e">>

W_memos_prefix == <<"m", "e", "m", "o", "s", "/">>

W_workspace == <<"w", "o", "r", "k", "s", "p", "a", "c", "e">>

W_private == <<"p", "r", "i", "v", "a", "t", "e">>

W_public == <<"p", "u", "b", "l", "i", "c">>

W_set == <<"s", "e", "t">>

W_list_archived == <<"l", "i", "s", "t", "_", "a", "r", "c", "h", "i", "v", "e", "d">>

\* str(None)
W_None == <<"N", "o", "n", "e">>

----------------------------------------------------------------------------
(* Program constants. *)

DefaultSearchMaxCount == 50

DefaultAuditMaxChars == 2000

DefaultArchiveLimit == 20

PageSize == 100

----------------------------------------------------------------------------
(* The audit/trace builder. *)

\* The caller gets no audit payload.
AuditNone == [present |-> FALSE, trace_id |-> "", steps |-> <<>>, metrics |-> EmptyDict]

\* Faulty variant: the joined steps are returned whole, whatever their length.
_build_audit_untruncated(cfg, trace_id, steps, metrics) ==
    IF ~_cfg_bool(cfg, "enable_ai_audit_log", TRUE) THEN AuditNone
    ELSE [present |-> TRUE, trace_id |-> trace_id, steps |-> Join(steps, <<"\n">>),
          metrics |-> metrics]

\* steps: a sequence of step texts; metrics: a mapping (EmptyDict when not given).
\* The length of a text is its number of atoms.
_build_audit(cfg, trace_id, steps, metrics) ==
    IF ~_cfg_bool(cfg, "enable_ai_audit_log", TRUE) THEN AuditNone
    ELSE LET max_chars == _cfg_int(cfg, "ai_audit_log_max_chars", DefaultAuditMaxChars)
             joined == Join(steps, <<"\n">>)
             cut == IF Len(joined) > max_chars
                    THEN Take(joined, max_chars) \o <<"...">>
                    ELSE joined
         IN  [present |-> TRUE, trace_id |-> trace_id, steps |-> cut,
              metrics |-> metrics]

\* The uniform envelope every operation returns.
OperationResult(ok, trace_id, result, audit, errors) ==
    [kind |-> "result", ok |-> ok, trace_id |-> trace_id, result |-> result,
     audit |-> audit, errors |-> errors]

\* The invocation ended with an exception thrown to its caller.
Raised(exc) ==
    [kind |-> "raised", ok |-> FALSE, trace_id |-> "", result |-> EmptyDict,
     audit |-> AuditNone, errors |-> <<<<exc>>>>]

\* The invocation was cancelled at its suspension point: CancelledError is
\* not an Exception, no handler of the program catches it.
Cancelled ==
    [kind |-> "cancelled", ok |-> FALSE, trace_id |-> "", result |-> EmptyDict,
     audit |-> AuditNone, errors |-> <<>>]

\* No invocation has returned yet.
NoReturn ==
    [kind |-> "none", ok |-> FALSE, trace_id |-> "", result |-> EmptyDict,
     audit |-> AuditNone, errors |-> <<>>]

----------------------------------------------------------------------------
(* The capability gate. *)

\* An event of the host: message_obj.sender.user_id (None when any link of
\* the chain is absent) and the get_sender_id accessor.
NoEvent == [present |-> FALSE, user_id |-> None, getter |-> "absent", getter_val |-> None]

Event(user_id, getter, getter_val) ==
    [present |-> TRUE, user_id |-> user_id, getter |-> getter, getter_val |-> getter_val]

\* Faulty variant: the entries are not filtered by isdigit.
_parse_allowed_uids_unfiltered(cfg) ==
    LET raw == _cfg_str(cfg, "allowed_uids", <<>>)
        split == Split(raw, ",")
    IN  Range(SelectSeq([i \in 1..Len(split) |-> Strip(split[i])], LAMBDA x : x # <<>>))

_parse_allowed_uids(cfg) ==
    LET raw == _cfg_str(cfg, "allowed_uids", <<>>)
        split == Split(raw, ",")
        parts == SelectSeq([i \in 1..Len(split) |-> Strip(split[i])],
                           LAMBDA x : x # <<>>)
    IN  {x \in Range(parts) : IsDigit(x)}

_extract_uid_from_event(event) ==
    IF event.user_id.some THEN event.user_id
    ELSE IF event.getter = "returns" /\ event.getter_val.some THEN event.getter_val
    ELSE None

Truthy(uid) == uid.some /\ uid.v # <<>>

_extract_uid_from_ctx(context) ==
    LET u1 == IF context.inner_event.present
              THEN _extract_uid_from_event(context.inner_event) ELSE None
        u2 == IF context.event.present
              THEN _extract_uid_from_event(context.event) ELSE None
        u3 == IF context.run_event.present
              THEN _extract_uid_from_event(context.run_event) ELSE None
    IN  IF Truthy(u1) THEN u1
        ELSE IF Truthy(u2) THEN u2
        ELSE IF Truthy(u3) THEN u3
        ELSE None

\* The decision, and whether the identity chain was consulted to reach it.
Decision(allowed, reason, uid, looked_up) ==
    [allowed |-> allowed, reason |-> reason, uid |-> uid, looked_up |-> looked_up]

\* Faulty variant: the allow-list is looked at before the identifier.
_check_tool_permission_list_first(cfg, context, tool_name) ==
    IF ~_cfg_bool(cfg, "enable_uid_auth", FALSE)
    THEN Decision(TRUE, <<"uid_auth_disabled">>, None, FALSE)
    ELSE LET uid == _extract_uid_from_ctx(context)
             allowed_uids == _parse_allowed_uids(cfg)
         IN  IF allowed_uids = {}
             THEN Decision(FALSE, <<"allowed_uids_empty">>, uid, TRUE)
             ELSE IF ~Truthy(uid)
             THEN Decision(FALSE, <<"uid_missing_for_tool_", tool_name>>, None, TRUE)
             ELSE IF uid.v \notin allowed_uids
             THEN Decision(FALSE, <<"uid_not_allowed_for_tool_", tool_name>>, uid, TRUE)
             ELSE Decision(TRUE, <<"uid_allowed">>, uid, TRUE)

_check_tool_permission(cfg, context, tool_name) ==
    IF ~_cfg_bool(cfg, "enable_uid_auth", FALSE)
    THEN Decision(TRUE, <<"uid_auth_disabled">>, None, FALSE)
    ELSE LET uid == _extract_uid_from_ctx(context)
             allowed_uids == _parse_allowed_uids(cfg)
         IN  IF ~Truthy(uid)
             THEN Decision(FALSE, <<"uid_missing_for_tool_", tool_name>>, None, TRUE)
             ELSE IF allowed_uids = {}
             THEN Decision(FALSE, <<"allowed_uids_empty">>, uid, TRUE)
             ELSE IF uid.v \notin allowed_uids
             THEN Decision(FALSE, <<"uid_not_allowed_for_tool_", tool_name>>, uid, TRUE)
             ELSE Decision(TRUE, <<"uid_allowed">>, uid, TRUE)

\* The user-facing message of a denial (the source's text is Chinese:
\* "the current user has no permission to use this tool").
MsgNotAuthorized == <<"current user has no permission to use this tool">>

_auth_denied_result(cfg, trace_id, tool_name, reason) ==
    LET steps == << <<"auth_denied tool=", tool_name>>, <<"reason=">> \o reason >>
    IN  OperationResult(FALSE, trace_id, EmptyDict,
                        _build_audit(cfg, trace_id, steps, EmptyDict),
                        <<MsgNotAuthorized>>)

\* None (allowed) or the denial to return at once.
_check_auth_or_return(cfg, context, tool_name, trace_id) ==
    LET d == _check_tool_permission(cfg, context, tool_name)
    IN  IF d.allowed THEN [denied |-> FALSE, result |-> NoReturn, decision |-> d]
        ELSE [denied |-> TRUE,
              result |-> _auth_denied_result(cfg, trace_id, tool_name, d.reason),
              decision |-> d]

----------------------------------------------------------------------------
(* The date boundary resolver. *)

\* A raw bound as the caller gives it: absent (None); blank; a 10-character
\* calendar day (v = days since the epoch); a timestamp with a zone or a
\* trailing Z (v = the instant, epoch seconds); a timestamp without zone
\* (v = local wall-clock seconds); text that parses as neither.
DNone == [k |-> "none", v |-> 0]

DBlank == [k |-> "blank", v |-> 0]

DDay(d) == [k |-> "day", v |-> d]

DUtc(t) == [k |-> "utc", v |-> t]

DNaive(w) == [k |-> "naive", v |-> w]

DBad == [k |-> "bad", v |-> 0]

SecondsOfDay(h, m, sec) == h * 3600 + m * 60 + sec

DayLength == 24 * 3600

\* Faulty variant: the local wall-clock time is taken for UTC.
_parse_date_bound_without_zone(raw, is_end, tzoff) ==
    CASE raw.k \in {"none", "blank"} -> [err |-> FALSE, dt |-> NoneInt]
      [] raw.k = "day" ->
            [err |-> FALSE,
             dt |-> Some(raw.v * DayLength
                         + (IF is_end THEN SecondsOfDay(23, 59, 59)
                                      ELSE SecondsOfDay(0, 0, 0)))]
      [] raw.k \in {"utc", "naive"} -> [err |-> FALSE, dt |-> Some(raw.v)]
      [] OTHER -> [err |-> TRUE, dt |-> NoneInt]

\* [err |-> a ValueError was raised, dt |-> the UTC instant or None]
_parse_date_bound(raw, is_end, tzoff) ==
    CASE raw.k \in {"none", "blank"} -> [err |-> FALSE, dt |-> NoneInt]
      [] raw.k = "day" ->
            [err |-> FALSE,
             dt |-> Some(raw.v * DayLength
                         + (IF is_end THEN SecondsOfDay(23, 59, 59)
                                      ELSE SecondsOfDay(0, 0, 0))
                         - tzoff)]
      [] raw.k = "utc" -> [err |-> FALSE, dt |-> Some(raw.v)]
      [] raw.k = "naive" -> [err |-> FALSE, dt |-> Some(raw.v - tzoff)]
      [] OTHER -> [err |-> TRUE, dt |-> NoneInt]

\* Faulty variant: the comparison the wrong way round.
start_before_end(start_dt, end_dt) ==
    start_dt.some /\ end_dt.some /\ start_dt.v < end_dt.v

\* if start_dt and end_dt and start_dt > end_dt (a datetime is always truthy)
start_after_end(start_dt, end_dt) ==
    start_dt.some /\ end_dt.some /\ start_dt.v > end_dt.v

\* A memo's timestamp field as the note service serialises it: an ISO-8601
\* text (t = its instant), the empty text, text that does not parse, or a
\* value that is no text.
TIso(t) == [k |-> "iso", t |-> t]

TEmpty == [k |-> "empty", t |-> 0]

TBad == [k |-> "bad", t |-> 0]

_parse_memo_time(raw) ==
    IF raw.k = "iso" THEN Some(raw.t) ELSE NoneInt

----------------------------------------------------------------------------
(* The keyword matcher. *)

\* Faulty variant: the query is compared as typed.
_memo_match_keyword_case_sensitive(memo, query) ==
    LET tags_text == Join(memo.tags, <<" ">>)
        haystack == Lower(memo.content \o <<"\n">> \o memo.snippet \o <<"\n">> \o tags_text)
    IN  Contains(haystack, query)

_memo_match_keyword(memo, query) ==
    LET q_cf == Lower(query)
        tags_text == Join(memo.tags, <<" ">>)
        haystack == Lower(memo.content \o <<"\n">> \o memo.snippet \o <<"\n">> \o tags_text)
    IN  Contains(haystack, q_cf)

----------------------------------------------------------------------------
(* Visibility labels (tool_models). *)

VISIBILITY_LABELS == {W_workspace, W_private, W_public}

\* Faulty variant: an unrecognized label is passed on as it is.
normalize_visibility_label_unchecked(raw) ==
    Lower(Strip(IF raw.some /\ raw.v # <<>> THEN raw.v ELSE W_workspace))

normalize_visibility_label(raw) ==
    LET value == Lower(Strip(IF raw.some /\ raw.v # <<>> THEN raw.v ELSE W_workspace))
    IN  IF value \notin VISIBILITY_LABELS THEN W_workspace ELSE value

map_visibility_label_to_api(label) ==
    LET normalized == normalize_visibility_label(Some(label))
    IN  IF normalized = W_workspace THEN "PROTECTED"
        ELSE IF normalized = W_public THEN "PUBLIC"
        ELSE "PRIVATE"

----------------------------------------------------------------------------
(* The note-service client (memos_client). *)

RECURSIVE RStripSlash(_)
RStripSlash(s) ==
    IF s # <<>> /\ s[Len(s)] = "/" THEN RStripSlash(SubSeq(s, 1, Len(s) - 1)) ELSE s

W_api_v1 == <<"/", "a", "p", "i", "/", "v", "1">>

EndsWith(s, p) == Len(s) >= Len(p) /\ SubSeq(s, Len(s) - Len(p) + 1, Len(s)) = p

_normalize_base_url(url) ==
    LET cleaned == RStripSlash(Strip(url))
    IN  IF cleaned = <<>> THEN <<>>
        ELSE IF EndsWith(cleaned, W_api_v1) THEN cleaned
        ELSE cleaned \o W_api_v1

\* MemosClient.__init__ through _build_client: the handle, or the
\* MemosClientError it raises.
_build_client(cfg) ==
    LET base_url == _normalize_base_url(_cfg_str(cfg, "memos_base_url", <<>>))
        token == Strip(_cfg_str(cfg, "memos_token", <<>>))
    IN  IF base_url = <<>>
        THEN [err |-> TRUE, msg |-> <<"memos_base_url is empty">>,
              base_url |-> base_url, token |-> token]
        ELSE IF token = <<>>
        THEN [err |-> TRUE, msg |-> <<"memos_token is empty">>,
              base_url |-> base_url, token |-> token]
        ELSE [err |-> FALSE, msg |-> <<>>, base_url |-> base_url, token |-> token]

\* dict.get(key, default) on a record of the note service.
Get(m, key, default) == IF key \in DOMAIN m THEN m[key] ELSE default

_sanitize_memo(memo) ==
    [name |-> Get(memo, "name", <<>>),
     content |-> Get(memo, "content", <<>>),
     visibility |-> Get(memo, "visibility", ""),
     tags |-> Get(memo, "tags", <<>>),
     create_time |-> Get(memo, "createTime", TEmpty),
     update_time |-> Get(memo, "updateTime", TEmpty),
     display_time |-> Get(memo, "displayTime", TEmpty),
     pinned |-> Get(memo, "pinned", FALSE),
     snippet |-> Get(memo, "snippet", <<>>),
     creator |-> Get(memo, "creator", <<>>),
     state |-> Get(memo, "state", "")]

\* A request on the wire. params/body hold what the call sends.
Request(method, path, params, body) ==
    [method |-> method, path |-> path, params |-> params, body |-> body]

\* The GET /memos request list_memos_page sends.
list_memos_request(page_size, page_token, include_archived, old_filter) ==
    Request("GET", <<"/memos">>,
            [pageSize |-> Max(1, page_size),
             state |-> IF include_archived THEN "ARCHIVED" ELSE "NORMAL",
             sort |-> "display_time",
             direction |-> "DESC",
             pageToken |-> IF Truthy(page_token) THEN page_token ELSE None,
             oldFilter |-> IF Truthy(old_filter) THEN old_filter ELSE None],
            EmptyDict)

\* What list_memos_page returns for a well-formed answer of the service:
\* the sanitised records and the cursor, None unless a non-empty text.
list_memos_result(memos, nextPageToken) ==
    [memos_page |-> [i \in 1..Len(memos) |-> _sanitize_memo(memos[i])],
     next_page_token |-> IF Truthy(nextPageToken) THEN nextPageToken ELSE None]

\* The ways _request and its callers fail with MemosClientError, and the
\* message each carries.
ClientFailures == {"timeout", "network", "status", "bad_json", "bad_shape", "bad_memos"}

client_error_message(failure, method, path) ==
    CASE failure = "timeout" -> <<"request timeout: ", method, " ">> \o path
      [] failure = "network" -> <<"network error: ", method, " ">> \o path
      [] failure = "status" -> <<"memos api error ", "500", " on ", method, " ">> \o path
      [] failure = "bad_json" -> <<"invalid json response on ", method, " ">> \o path
      [] failure = "bad_shape" -> <<"unexpected response shape on ", method, " ">> \o path
      [] OTHER -> <<"invalid memos list in list_memos_page">>

----------------------------------------------------------------------------
(* Operation bodies. A body runs until it returns or suspends at the      *)
(* client's network call; a step says which, with the locals it leaves.   *)

NoRequest == Request("none", <<>>, EmptyDict, EmptyDict)

\* The body has not run.
NoLoc ==
    [op |-> "none", via_archive_list |-> FALSE, trace_id |-> "", steps |-> <<>>,
     search_max_count |-> 0, selected_date_field |-> <<>>,
     start_date |-> DNone, end_date |-> DNone,
     start_dt |-> NoneInt, end_dt |-> NoneInt, old_filter |-> None,
     query_text |-> <<>>, query_mode |-> "", include_archived |-> FALSE,
     page_token |-> None, scanned_count |-> 0, date_filtered_count |-> 0,
     keyword_filtered_count |-> 0, page_count |-> 0, result_memos |-> <<>>,
     name |-> <<>>]

Return(result, l) == [next |-> "return", ret |-> result, loc |-> l, req |-> NoRequest]

Await(l, req) == [next |-> "await", ret |-> NoReturn, loc |-> l, req |-> req]

\* The failed envelope of the except branches.
failure_result(cfg, trace_id, steps, errors) ==
    OperationResult(FALSE, trace_id, EmptyDict,
                    _build_audit(cfg, trace_id, steps, EmptyDict), errors)

BoolAtom(b) == IF b THEN "True" ELSE "False"

----------------------------------------------------------------------------
(* run_search *)

select_date_field(date_field) ==
    LET selected == Lower(Strip(IF date_field = <<>> THEN W_display_time ELSE date_field))
    IN  IF selected \notin {W_display_time, W_create_time, W_update_time}
        THEN W_display_time ELSE selected

\* The server-side filter: display_time only, one predicate per present bound.
build_old_filter(selected_date_field, start_dt, end_dt) ==
    LET parts ==
            IF selected_date_field = W_display_time
            THEN (IF start_dt.some
                  THEN << <<"display_time_after == ", ToString(start_dt.v)>> >> ELSE <<>>)
                 \o (IF end_dt.some
                     THEN << <<"display_time_before == ", ToString(end_dt.v)>> >> ELSE <<>>)
            ELSE <<>>
    IN  IF parts # <<>> THEN Some(Join(parts, <<" && ">>)) ELSE None

memo_date_field(memo, selected_date_field) ==
    CASE selected_date_field = W_create_time -> memo.create_time
      [] selected_date_field = W_update_time -> memo.update_time
      [] OTHER -> memo.display_time

\* Faulty variant: a record whose timestamp does not parse is kept.
date_keep_unparsed(memo, selected_date_field, start_dt, end_dt) ==
    IF selected_date_field # W_display_time
    THEN LET target_dt == _parse_memo_time(memo_date_field(memo, selected_date_field))
         IN  target_dt.some
                => /\ ~(start_dt.some /\ target_dt.v < start_dt.v)
                   /\ ~(end_dt.some /\ target_dt.v > end_dt.v)
    ELSE TRUE

\* The plugin-side date filter of one record (lines 373-381).
date_keep(memo, selected_date_field, start_dt, end_dt) ==
    IF selected_date_field # W_display_time
    THEN LET target_dt == _parse_memo_time(memo_date_field(memo, selected_date_field))
         IN  /\ target_dt.some
             /\ ~(start_dt.some /\ target_dt.v < start_dt.v)
             /\ ~(end_dt.some /\ target_dt.v > end_dt.v)
    ELSE TRUE

keyword_keep(date_kept, query_text) ==
    IF query_text # <<>>
    THEN SelectSeq(date_kept, LAMBDA m : _memo_match_keyword(m, query_text))
    ELSE date_kept

\* Faulty variant: the loop appends every record of the page, without the break.
append_without_break(result_memos, keyword_kept, search_max_count) ==
    result_memos \o keyword_kept

\* for memo in keyword_kept: append; break once the cap is reached.
RECURSIVE append_until_cap(_, _, _)
append_until_cap(result_memos, keyword_kept, search_max_count) ==
    IF keyword_kept = <<>> THEN result_memos
    ELSE LET appended == Append(result_memos, Head(keyword_kept))
         IN  IF Len(appended) >= search_max_count THEN appended
             ELSE append_until_cap(appended, Tail(keyword_kept), search_max_count)

\* Faulty variant: every page is requested without the cursor.
search_page_request_without_cursor(l) ==
    list_memos_request(PageSize, None, l.include_archived, l.old_filter)

search_page_request(l) ==
    list_memos_request(PageSize, l.page_token, l.include_archived, l.old_filter)

\* After the loop: the closing steps and the successful envelope.
search_success(cfg, l) ==
    LET steps == l.steps
            \o (IF l.query_text # <<>>
                THEN << <<"keyword_filter_applied query=">> \o l.query_text >>
                ELSE << <<"keyword_filter_skipped query_empty=true">> >>)
            \o << <<"pipeline_done pages=", ToString(l.page_count),
                    " scanned=", ToString(l.scanned_count),
                    " date_kept=", ToString(l.date_filtered_count),
                    " keyword_kept=", ToString(l.keyword_filtered_count),
                    " final=", ToString(Len(l.result_memos))>> >>
        l2 == [l EXCEPT !.steps = steps]
    IN  Return(
          OperationResult(TRUE, l.trace_id,
            [query_mode |-> l.query_mode,
             search_max_count |-> l.search_max_count,
             matched_count |-> Len(l.result_memos),
             memos |-> l.result_memos],
            _build_audit(cfg, l.trace_id, steps,
              [query_mode |-> l.query_mode,
               final_return_limit |-> l.search_max_count,
               selected_date_field |-> l.selected_date_field,
               start_date |-> l.start_date,
               end_date |-> l.end_date,
               scanned_count |-> l.scanned_count,
               date_filtered_count |-> l.date_filtered_count,
               keyword_filtered_count |-> l.keyword_filtered_count,
               matched_count |-> Len(l.result_memos)]),
            <<>>),
          l2)

\* except ValueError / MemosClientError / Exception: one more step, then the
\* failed envelope.
search_failure(cfg, l, kind, message, errors) ==
    LET steps == Append(l.steps, <<"error type=", kind, " message=">> \o message)
    IN  Return(failure_result(cfg, l.trace_id, steps, errors),
               [l EXCEPT !.steps = steps])

\* run_search from its first line to the first page request (or to an
\* early return).
run_search_start(cfg, tzoff, trace_id, query, include_archived, start_date, end_date, date_field) ==
    LET search_max_count == _cfg_int(cfg, "search_max_count", DefaultSearchMaxCount)
        selected_date_field == select_date_field(date_field)
        query_present == query.some /\ Strip(query.v) # <<>>
        steps == << <<"start memos_search trace=", trace_id,
                      " query_present=", BoolAtom(query_present),
                      " include_archived=", BoolAtom(include_archived),
                      " search_max_count=", ToString(search_max_count),
                      " start_date=", ToString(start_date),
                      " end_date=", ToString(end_date),
                      " date_field=">> \o selected_date_field >>
        l0 == [NoLoc EXCEPT !.op = "search", !.trace_id = trace_id, !.steps = steps,
                            !.search_max_count = search_max_count,
                            !.selected_date_field = selected_date_field,
                            !.start_date = start_date, !.end_date = end_date,
                            !.include_archived = include_archived]
        start == _parse_date_bound(start_date, FALSE, tzoff)
        end == _parse_date_bound(end_date, TRUE, tzoff)
        bad == IF start.err THEN start_date ELSE end_date
        client == _build_client(cfg)
        query_text == Strip(IF query.some THEN query.v ELSE <<>>)
        l1 == [l0 EXCEPT !.start_dt = start.dt, !.end_dt = end.dt,
                         !.old_filter = build_old_filter(selected_date_field,
                                                         start.dt, end.dt),
                         !.query_text = query_text,
                         !.query_mode = IF query_text # <<>> THEN "keyword" ELSE "recent",
                         !.page_count = 1]
    IN  IF start.err \/ end.err
        THEN search_failure(cfg, l0, "invalid_date",
                            <<"invalid date format: ", ToString(bad)>>,
                            << <<"invalid date format: ", ToString(bad)>> >>)
        ELSE IF start_after_end(start.dt, end.dt)
        THEN Return(
               failure_result(cfg, trace_id,
                  Append(steps, <<"error invalid_range start_after_end">>),
                  << <<"start_date must be earlier than or equal to end_date">> >>),
               l0)
        ELSE IF client.err
        THEN search_failure(cfg, l0, "memos_client_error", client.msg, <<client.msg>>)
        ELSE Await(l1, search_page_request(l1))

\* Faulty variant: the cap does not end the loop.
stop_reason_ignoring_cap(result_memos, search_max_count, next_page_token) ==
    IF ~Truthy(next_page_token) THEN <<"stop_reason=no_more_pages">> ELSE <<>>

\* Faulty variant: a page without cursor does not end the loop.
stop_reason_ignoring_cursor(result_memos, search_max_count, next_page_token) ==
    IF Len(result_memos) >= search_max_count
    THEN <<"stop_reason=reach_search_max_count">> ELSE <<>>

\* The two tests that close a turn of the loop (lines 395-400): the step of
\* the stop condition that fired, or no step when the loop goes on.
stop_reason(result_memos, search_max_count, next_page_token) ==
    IF Len(result_memos) >= search_max_count
    THEN <<"stop_reason=reach_search_max_count">>
    ELSE IF ~Truthy(next_page_token) THEN <<"stop_reason=no_more_pages">>
    ELSE <<>>

\* One turn of the loop after list_memos_page returned (lines 366-401).
run_search_page(cfg, l, memos_page, next_page_token) ==
    IF memos_page = <<>> THEN search_success(cfg, l)
    ELSE LET date_kept == SelectSeq(memos_page,
                 LAMBDA m : date_keep(m, l.selected_date_field, l.start_dt, l.end_dt))
             keyword_kept == keyword_keep(date_kept, l.query_text)
             result_memos == append_until_cap(l.result_memos, keyword_kept,
                                              l.search_max_count)
             l1 == [l EXCEPT !.scanned_count = @ + Len(memos_page),
                             !.date_filtered_count = @ + Len(date_kept),
                             !.keyword_filtered_count = @ + Len(keyword_kept),
                             !.result_memos = result_memos]
             stop == stop_reason(result_memos, l.search_max_count, next_page_token)
         IN  IF stop # <<>>
             THEN search_success(cfg, [l1 EXCEPT !.steps = Append(@, stop)])
             ELSE LET l2 == [l1 EXCEPT !.page_token = next_page_token,
                                       !.page_count = @ + 1]
                  IN  Await(l2, search_page_request(l2))

\* Faulty variant: a failed fetch ends the loop and what was gathered is returned.
run_search_swallow_error(cfg, l, message) == search_success(cfg, l)

\* list_memos_page raised MemosClientError inside the loop.
run_search_client_error(cfg, l, message) ==
    search_failure(cfg, l, "memos_client_error", message, <<message>>)

----------------------------------------------------------------------------
(* run_archive_list: the tail after run_search returned. *)

\* limit as given: absent (None), an integer, or a value that is no integer.
LNone == [k |-> "none", v |-> 0]

LInt(n) == [k |-> "int", v |-> n]

LOther == [k |-> "other", v |-> 0]

requested_limit_of(limit) ==
    IF limit.k = "int" /\ limit.v > 0 THEN limit.v ELSE DefaultArchiveLimit

\* Faulty variant: the requested limit is not clamped to the cap.
effective_limit_unclamped(requested_limit, search_max_count) == requested_limit

effective_limit_of(requested_limit, search_max_count) ==
    Min(requested_limit, search_max_count)

run_archive_list_tail(cfg, search_result, limit) ==
    IF ~search_result.ok THEN search_result
    ELSE LET search_max_count == _cfg_int(cfg, "search_max_count", DefaultSearchMaxCount)
             requested_limit == requested_limit_of(limit)
             effective_limit == effective_limit_of(requested_limit, search_max_count)
             result == search_result.result
             trimmed == Take(result.memos, effective_limit)
         IN  [search_result EXCEPT !.result =
                [query_mode |-> "archived_list",
                 search_max_count |-> result.search_max_count,
                 matched_count |-> Len(trimmed),
                 memos |-> trimmed,
                 requested_limit |-> requested_limit,
                 effective_limit |-> effective_limit]]

----------------------------------------------------------------------------
(* run_create, run_update, run_delete, run_archive *)

NoneBool == [some |-> FALSE, v |-> FALSE]

\* except Exception of the four mutations.
mutation_failure(cfg, l, message) ==
    LET steps == Append(l.steps, <<"error message=">> \o message)
    IN  Return(failure_result(cfg, l.trace_id, steps, <<message>>),
               [l EXCEPT !.steps = steps])

MsgBadName == <<"memo name must start with memos/">>

run_create_start(cfg, trace_id, content, visibility) ==
    LET default_visibility ==
            normalize_visibility_label(Some(_cfg_str(cfg, "default_visibility", W_workspace)))
        selected == normalize_visibility_label(
                        IF visibility.some /\ visibility.v # <<>>
                        THEN visibility ELSE Some(default_visibility))
        visibility_api == map_visibility_label_to_api(selected)
        steps == << <<"start memos_create trace=", trace_id, " visibility_label=">>
                    \o selected \o <<" visibility_api=", visibility_api>> >>
        l == [NoLoc EXCEPT !.op = "create", !.trace_id = trace_id, !.steps = steps]
        client == _build_client(cfg)
    IN  IF client.err THEN mutation_failure(cfg, l, client.msg)
        ELSE Await(l, Request("POST", <<"/memos">>, EmptyDict,
                              [content |-> content, visibility |-> visibility_api]))

\* Faulty variant: content is put into the payload even when it is None.
update_payload_with_absent_content(content, visibility, pinned) ==
    ("content" :> content.v)
    @@ (IF pinned.some THEN "pinned" :> pinned.v ELSE EmptyDict)

\* The dict of the fields given, in the order the code adds them.
update_payload_of(content, visibility, pinned) ==
    (IF content.some THEN "content" :> content.v ELSE EmptyDict)
    @@ (IF visibility.some
        THEN "visibility" :> map_visibility_label_to_api(
                                 normalize_visibility_label(visibility))
        ELSE EmptyDict)
    @@ (IF pinned.some THEN "pinned" :> pinned.v ELSE EmptyDict)

update_mask_of(content, visibility, pinned) ==
    Join((IF content.some THEN << <<"content">> >> ELSE <<>>)
         \o (IF visibility.some THEN << <<"visibility">> >> ELSE <<>>)
         \o (IF pinned.some THEN << <<"pinned">> >> ELSE <<>>), <<",">>)

\* MemosClient.update_memo up to its request.
update_memo_request(name, mask, updates) ==
    Request("PATCH", <<"/">> \o name, [updateMask |-> mask],
            ("name" :> name) @@ updates)

run_update_start(cfg, trace_id, name, content, visibility, pinned) ==
    LET update_payload == update_payload_of(content, visibility, pinned)
        mask == update_mask_of(content, visibility, pinned)
        steps == << <<"start memos_update trace=", trace_id, " name=">> \o name
                    \o <<" fields=">> \o mask >>
        l0 == [NoLoc EXCEPT !.op = "update", !.trace_id = trace_id, !.name = name]
        l == [l0 EXCEPT !.steps = steps]
        client == _build_client(cfg)
    IN  IF DOMAIN update_payload = {}
        THEN Return(
               failure_result(cfg, trace_id, << <<"no_update_fields_provided">> >>,
                  << <<"at least one of content/visibility/pinned is required">> >>),
               l0)
        ELSE IF client.err THEN mutation_failure(cfg, l, client.msg)
        ELSE IF ~StartsWith(name, W_memos_prefix) THEN mutation_failure(cfg, l, MsgBadName)
        ELSE Await(l, update_memo_request(name, mask, update_payload))

run_delete_start(cfg, trace_id, name) ==
    LET steps == << <<"start memos_delete trace=", trace_id, " name=">> \o name >>
        l == [NoLoc EXCEPT !.op = "delete", !.trace_id = trace_id, !.name = name,
                           !.steps = steps]
        client == _build_client(cfg)
    IN  IF client.err THEN mutation_failure(cfg, l, client.msg)
        ELSE IF ~StartsWith(name, W_memos_prefix) THEN mutation_failure(cfg, l, MsgBadName)
        ELSE Await(l, Request("DELETE", <<"/">> \o name, EmptyDict, EmptyDict))

run_archive_start(cfg, trace_id, name, archived) ==
    LET target_state == IF archived THEN "ARCHIVED" ELSE "NORMAL"
        steps == << <<"start memos_archive trace=", trace_id, " name=">> \o name
                    \o <<" archived=", BoolAtom(archived),
                         " target_state=", target_state>> >>
        l == [NoLoc EXCEPT !.op = "archive", !.trace_id = trace_id, !.name = name,
                           !.steps = steps]
        client == _build_client(cfg)
    IN  IF client.err THEN mutation_failure(cfg, l, client.msg)
        ELSE IF ~StartsWith(name, W_memos_prefix) THEN mutation_failure(cfg, l, MsgBadName)
        ELSE Await(l, update_memo_request(name, <<"state">>, [state |-> target_state]))

\* The mutation's request was answered: memo is the record of the answer
\* (EmptyDict for an answer without content).
mutation_done(cfg, l, memo) ==
    LET sane == _sanitize_memo(memo)
        steps == Append(l.steps,
                    CASE l.op = "create" -> <<"create_done memo=">> \o sane.name
                      [] l.op = "update" -> <<"update_done">>
                      [] l.op = "delete" -> <<"delete_done">>
                      [] OTHER -> <<"archive_done">>)
        result == IF l.op = "delete" THEN [deleted |-> l.name] ELSE [memo |-> sane]
    IN  Return(OperationResult(TRUE, l.trace_id, result,
                               _build_audit(cfg, l.trace_id, steps, EmptyDict), <<>>),
               [l EXCEPT !.steps = steps])

----------------------------------------------------------------------------
(* The tools: what call() does once the gate let the invocation through. *)

ToolNames == {"memos_search", "memos_create", "memos_update", "memos_delete",
              "memos_archive"}

\* The keyword arguments of an invocation. None stands for a key the agent
\* left out.
DefaultKwargs ==
    [query |-> None, include_archived |-> FALSE, start_date |-> DNone,
     end_date |-> DNone, date_field |-> None, content |-> None,
     visibility |-> None, name |-> None, pinned |-> NoneBool, action |-> None,
     archived |-> TRUE, limit |-> LNone]

\* str(kwargs.get("date_field", "display_time"))
date_field_arg(kw) == IF kw.date_field.some THEN kw.date_field.v ELSE W_display_time

\* kwargs["name"] / kwargs["content"] with the key missing.
KeyError(l_op) == Return(Raised("KeyError"), [NoLoc EXCEPT !.op = l_op])

search_tool_body(cfg, tzoff, kw, trace_id) ==
    run_search_start(cfg, tzoff, trace_id, kw.query, kw.include_archived,
                     kw.start_date, kw.end_date, date_field_arg(kw))

create_tool_body(cfg, kw, trace_id) ==
    IF ~kw.content.some THEN KeyError("create")
    ELSE run_create_start(cfg, trace_id, kw.content.v, kw.visibility)

update_tool_body(cfg, kw, trace_id) ==
    IF ~kw.name.some THEN KeyError("update")
    ELSE run_update_start(cfg, trace_id, kw.name.v, kw.content, kw.visibility, kw.pinned)

delete_tool_body(cfg, kw, trace_id) ==
    IF ~kw.name.some THEN KeyError("delete")
    ELSE run_delete_start(cfg, trace_id, kw.name.v)

archive_tool_body(cfg, tzoff, kw, trace_id) ==
    LET action == Lower(Strip(IF kw.action.some THEN kw.action.v ELSE W_set))
        name == Strip(IF kw.name.some THEN kw.name.v ELSE <<>>)
        l == [NoLoc EXCEPT !.op = "archive", !.trace_id = trace_id]
    IN  IF action = W_list_archived
        THEN LET st == run_search_start(cfg, tzoff, trace_id, kw.query, TRUE,
                                        kw.start_date, kw.end_date, date_field_arg(kw))
                 l1 == [st.loc EXCEPT !.via_archive_list = TRUE]
             IN  IF st.next = "await" THEN Await(l1, st.req)
                 ELSE Return(run_archive_list_tail(cfg, st.ret, kw.limit), l1)
        ELSE IF action # W_set
        THEN Return(failure_result(cfg, trace_id,
                       << <<"error invalid_action action=">> \o action >>,
                       << <<"action must be one of: set, list_archived">> >>), l)
        ELSE IF name = <<>>
        THEN Return(failure_result(cfg, trace_id,
                       << <<"error missing_name_for_set_action">> >>,
                       << <<"name is required when action is set">> >>), l)
        ELSE run_archive_start(cfg, trace_id, name, kw.archived)

tool_body(cfg, tzoff, tool_name, kw, trace_id) ==
    CASE tool_name = "memos_search" -> search_tool_body(cfg, tzoff, kw, trace_id)
      [] tool_name = "memos_create" -> create_tool_body(cfg, kw, trace_id)
      [] tool_name = "memos_update" -> update_tool_body(cfg, kw, trace_id)
      [] tool_name = "memos_delete" -> delete_tool_body(cfg, kw, trace_id)
      [] OTHER -> archive_tool_body(cfg, tzoff, kw, trace_id)

\* Faulty variant: the denial of the gate is not returned, the body runs.
tool_call_ignoring_denial(cfg, tzoff, context, tool_name, kw, trace_id) ==
    LET gate == _check_auth_or_return(cfg, context, tool_name, trace_id)
    IN  [decision |-> gate.decision,
         step |-> tool_body(cfg, tzoff, tool_name, kw, trace_id)]

\* call(): the gate first; on denial its result is returned at once.
tool_call(cfg, tzoff, context, tool_name, kw, trace_id) ==
    LET gate == _check_auth_or_return(cfg, context, tool_name, trace_id)
    IN  [decision |-> gate.decision,
         step |-> IF gate.denied THEN Return(gate.result, NoLoc)
                  ELSE tool_body(cfg, tzoff, tool_name, kw, trace_id)]

----------------------------------------------------------------------------
(* The environment: the host's configuration and contexts, the agent's    *)
(* arguments, the note service's answers.                                  *)

TraceIds == {"t1", "t2"}

Config(auth_flag, allowed_uids, cap, audit_flag, audit_max, base_url) ==
    [enable_uid_auth |-> auth_flag,
     allowed_uids |-> allowed_uids,
     search_max_count |-> cap,
     enable_ai_audit_log |-> audit_flag,
     ai_audit_log_max_chars |-> audit_max,
     memos_base_url |-> base_url,
     memos_token |-> VStr(<<"k">>),
     default_visibility |-> VMissing,
     enable_memos_delete_tool |-> VBool(TRUE)]

\* "http://h/" in short.
UrlOk == VStr(<<"h", "/">>)

\* Contexts of the host, one per shape of the identity chain.
Context(inner_event, event, run_event) ==
    [inner_event |-> inner_event, event |-> event, run_event |-> run_event]

CtxNoEvent == Context(NoEvent, NoEvent, NoEvent)

CtxSender1 == Context(Event(Some(<<"1">>), "absent", None), NoEvent, NoEvent)

CtxGetter12 == Context(Event(None, "returns", Some(<<"1", "2">>)), NoEvent, NoEvent)

CtxRaises == Context(Event(None, "raises", None), NoEvent, NoEvent)

CtxFallback2 ==
    Context(Event(Some(<<>>), "returns", Some(<<"1">>)),
            Event(None, "raises", None),
            Event(Some(<<"2">>), "absent", None))

CtxSenderA == Context(NoEvent, Event(Some(<<"a">>), "absent", None), NoEvent)

Contexts == {CtxNoEvent, CtxSender1, CtxGetter12, CtxRaises, CtxFallback2, CtxSenderA}

\* Records of the note service, as its JSON gives them.
RawMemo(name, content, tags, createTime, displayTime) ==
    [name |-> W_memos_prefix \o name, content |-> content, tags |-> tags,
     createTime |-> createTime, updateTime |-> createTime,
     displayTime |-> displayTime, snippet |-> content, state |-> "NORMAL",
     visibility |-> "PRIVATE", pinned |-> FALSE, creator |-> <<"u">>]

\* One page of the service: up to MaxPageLen records of the pool.
PagesOver(pool) == UNION {[1..n -> pool] : n \in 0..MaxPageLen}

\* nextPageToken of the n-th answer: absent, empty, or a cursor of its own.
Tokens(n) == {None, Some(<<>>), Some(<<"c", ToString(n)>>)}

\* One answer of the note service (or the cancellation of the invocation).
Response(kind, memos_page, next_page_token, failure) ==
    [kind |-> kind, memos_page |-> memos_page, next_page_token |-> next_page_token,
     failure |-> failure]

----------------------------------------------------------------------------
(* Actions. *)

\* __init__: the delete tool is registered only when the flag is set at
\* construction.
registered_tools(cfg) ==
    {"memos_search", "memos_create", "memos_update", "memos_archive"}
    \cup (IF _cfg_bool(cfg, "enable_memos_delete_tool", FALSE)
          THEN {"memos_delete"} ELSE {})

InitWith(cfgs, tzs) ==
    /\ config \in cfgs
    /\ llm_tools = registered_tools(config)
    /\ tz \in tzs
    /\ pc = "idle"
    /\ tool = ""
    /\ ctx = CtxNoEvent
    /\ kwargs = DefaultKwargs
    /\ auth = Decision(FALSE, <<>>, None, FALSE)
    /\ loc = NoLoc
    /\ requests = <<>>
    /\ responses = <<>>
    /\ ret = NoReturn

\* Configuration read again when a suspended operation resumes.
ResumeKeys == {"search_max_count", "enable_ai_audit_log", "ai_audit_log_max_chars"}

\* The host changes a configuration value; an operation suspended at a
\* network call sees it when it resumes.
ConfigChange(cfgs) ==
    /\ pc \in {"idle", "await"}
    /\ \E c \in cfgs :
          /\ c # config
          /\ pc = "await" => \A k \in DOMAIN config \ ResumeKeys : c[k] = config[k]
          /\ config' = c
    /\ UNCHANGED <<llm_tools, tz, pc, tool, ctx, kwargs, auth, loc, requests, responses, ret>>

\* What the resumed body leaves: a result, or the next request.
Resume(step, response) ==
    /\ loc' = step.loc
    /\ responses' = Append(responses, response)
    /\ IF step.next = "await"
       THEN /\ pc' = "await"
            /\ requests' = Append(requests, step.req)
            /\ ret' = ret
       ELSE /\ pc' = "done"
            /\ requests' = requests
            /\ ret' = IF loc.via_archive_list
                      THEN run_archive_list_tail(config, step.ret, kwargs.limit)
                      ELSE step.ret
    /\ UNCHANGED <<config, llm_tools, tz, tool, ctx, kwargs, auth>>

\* The agent invokes a tool: the gate, then the body up to its first
\* network call.
Call(calls, trace_ids) ==
    /\ pc = "idle"
    /\ \E c \in calls, trace_id \in trace_ids :
          LET r == tool_call(config, tz, c.ctx, c.tool, c.kw, trace_id)
          IN  /\ c.tool \in llm_tools
              /\ tool' = c.tool
              /\ ctx' = c.ctx
              /\ kwargs' = c.kw
              /\ auth' = r.decision
              /\ loc' = r.step.loc
              /\ ret' = r.step.ret
              /\ requests' = IF r.step.next = "await" THEN <<r.step.req>> ELSE <<>>
              /\ pc' = IF r.step.next = "await" THEN "await" ELSE "done"
    /\ responses' = <<>>
    /\ UNCHANGED <<config, llm_tools, tz>>

\* GET /memos is answered with a well-formed page.
RespondPage(pool) ==
    /\ pc = "await"
    /\ loc.op = "search"
    /\ \E memos \in PagesOver(pool), token \in Tokens(Len(responses) + 1) :
          LET r == list_memos_result(memos, token)
          IN  /\ Len(responses) + 1 >= MaxPages => ~Truthy(token)
              /\ Resume(run_search_page(config, loc, r.memos_page, r.next_page_token),
                        Response("page", r.memos_page, r.next_page_token, ""))

\* POST / PATCH / DELETE is answered with a record (or without content).
RespondMemo(pool) ==
    /\ pc = "await"
    /\ loc.op \in {"create", "update", "delete", "archive"}
    /\ \E memo \in pool \cup {EmptyDict} :
          Resume(mutation_done(config, loc, memo), Response("memo", <<>>, None, ""))

\* The request fails: timeout, transport failure, error status, malformed
\* answer. The client raises MemosClientError.
RespondError ==
    /\ pc = "await"
    /\ \E f \in ClientFailures :
          LET req == requests[Len(requests)]
              msg == client_error_message(f, req.method, req.path)
          IN  /\ f = "bad_memos" => loc.op = "search"
              /\ Resume(IF loc.op = "search"
                        THEN run_search_client_error(config, loc, msg)
                        ELSE mutation_failure(config, loc, msg),
                        Response("error", <<>>, None, f))

\* The invocation is cancelled while its network call is outstanding.
Cancel ==
    /\ pc = "await"
    /\ pc' = "done"
    /\ ret' = Cancelled
    /\ responses' = Append(responses, Response("cancel", <<>>, None, ""))
    /\ UNCHANGED <<config, llm_tools, tz, tool, ctx, kwargs, auth, loc, requests>>

\* The caller took the result; the next invocation starts from scratch.
Finish ==
    /\ pc = "done"
    /\ pc' = "idle"
    /\ tool' = ""
    /\ ctx' = CtxNoEvent
    /\ kwargs' = DefaultKwargs
    /\ auth' = Decision(FALSE, <<>>, None, FALSE)
    /\ loc' = NoLoc
    /\ requests' = <<>>
    /\ responses' = <<>>
    /\ ret' = NoReturn
    /\ UNCHANGED <<config, llm_tools, tz>>

----------------------------------------------------------------------------
(* The tool surface: every tool, every shape of context, the gate's       *)
(* configuration.                                                          *)

SurfaceConfigs ==
    {Config(a, u, VInt(1), l, VMissing, UrlOk) :
        a \in {VMissing, VBool(TRUE), VStr(<<"O", "N">>)},
        u \in {VMissing, VStr(<<>>), VStr(<<"1">>),
               VStr(<<" ", "1", " ", ",", "1", "2">>),
               VStr(<<"a", ",", ",", "x", "1">>),
               VStr(<<"2", ",", "a">>)},
        l \in {VMissing, VBool(FALSE)}}
    \cup {Config(VMissing, VMissing, VInt(1), l, VInt(3), UrlOk) :
             l \in {VMissing, VBool(FALSE)}}
    \cup {[Config(VMissing, VMissing, VInt(1), VMissing, VMissing, UrlOk)
              EXCEPT !.default_visibility = VStr(<<"P", "r", "i", "v", "a", "t", "e">>)]}
    \cup {Config(VMissing, VMissing, VInt(1), l, m, VStr(<<" ">>)) :
             l \in {VMissing, VBool(FALSE)}, m \in {VMissing, VInt(3)}}
    \cup {[Config(a, VStr(<<"1">>), VInt(1), VMissing, VMissing, UrlOk)
              EXCEPT !.enable_memos_delete_tool = d] :
             a \in {VMissing, VBool(TRUE)}, d \in {VMissing, VBool(FALSE)}}

NameOk == Some(W_memos_prefix \o <<"1">>)

SurfaceKwargs(t) ==
    CASE t = "memos_search" ->
            {DefaultKwargs,
             [DefaultKwargs EXCEPT !.start_date = DBad],
             [DefaultKwargs EXCEPT !.start_date = DDay(2), !.end_date = DDay(1)]}
      [] t = "memos_create" ->
            {DefaultKwargs,
             [DefaultKwargs EXCEPT !.content = Some(<<"x">>)],
             [DefaultKwargs EXCEPT !.content = Some(<<"x">>),
                                   !.visibility = Some(<<"x">>)],
             [DefaultKwargs EXCEPT !.content = Some(<<"x">>),
                                   !.visibility = Some(<<"P", "u", "b", "l", "i", "c">>)]}
      [] t = "memos_update" ->
            {[DefaultKwargs EXCEPT !.content = Some(<<"x">>)],
             [DefaultKwargs EXCEPT !.name = NameOk],
             [DefaultKwargs EXCEPT !.name = Some(<<"4", "2">>)],
             [DefaultKwargs EXCEPT !.name = NameOk, !.content = Some(<<"x">>)],
             [DefaultKwargs EXCEPT !.name = NameOk,
                                   !.visibility = Some(<<" ", "P", "r", "i", "v", "a", "t", "e">>)],
             [DefaultKwargs EXCEPT !.name = Some(<<"4", "2">>),
                                   !.pinned = [some |-> TRUE, v |-> TRUE]]}
      [] t = "memos_delete" ->
            {DefaultKwargs, [DefaultKwargs EXCEPT !.name = NameOk]}
      [] OTHER ->
            {DefaultKwargs,
             [DefaultKwargs EXCEPT !.name = NameOk, !.archived = FALSE],
             [DefaultKwargs EXCEPT !.action = Some(<<"d", "r", "o", "p">>)],
             [DefaultKwargs EXCEPT !.action = Some(W_list_archived)]}

SurfaceCalls ==
    {[tool |-> t, ctx |-> c, kw |-> k] :
        t \in ToolNames, c \in Contexts, k \in UNION {SurfaceKwargs(x) : x \in ToolNames}}
    \cap {call \in [tool : ToolNames, ctx : Contexts,
                    kw : UNION {SurfaceKwargs(x) : x \in ToolNames}] :
             call.kw \in SurfaceKwargs(call.tool)}

SurfacePool == {RawMemo(<<"1">>, <<"x">>, <<>>, TIso(0), TIso(0))}

Init == InitWith(SurfaceConfigs, {0})

Next ==
    \/ ConfigChange(SurfaceConfigs)
    \/ Call(SurfaceCalls, TraceIds)
    \/ RespondPage(SurfacePool)
    \/ RespondMemo(SurfacePool)
    \/ RespondError
    \/ Cancel
    \/ Finish

Spec == Init /\ [][Next]_vars

----------------------------------------------------------------------------
(* The search pipeline in depth: search and archive_list with the gate    *)
(* open, over caps, zones, bounds, queries and pages of several records.  *)

SearchConfigs ==
    {Config(VMissing, VMissing, c, VMissing, VMissing, UrlOk) :
        c \in {VInt(1), VStr(<<" ", "2">>)}}

\* UTC, and UTC+8.
SearchZones == {0, 8 * 3600}

\* Day 1 is [86400, 172799] in UTC and [57600, 143999] in UTC+8. MemoA is
\* displayed at noon of day 1 in UTC+8, MemoB one second after that day's
\* 23:59:59.
MemoA == RawMemo(<<"1">>, <<"a", "B">>, <<>>, TIso(90000), TIso(100800))

\* No updateTime, snippet or state in the record.
MemoB ==
    [name |-> W_memos_prefix \o <<"2">>, content |-> <<"c">>,
     tags |-> << <<"x">>, <<"A", "b">> >>, createTime |-> TIso(172800),
     displayTime |-> TIso(144000)]

SearchPool == {MemoA, MemoB}

SearchKwargs ==
    {DefaultKwargs,
     [DefaultKwargs EXCEPT !.query = Some(<<" ", "A", "b", " ">>), !.include_archived = TRUE],
     [DefaultKwargs EXCEPT !.query = Some(<<"B", "a">>)],
     [DefaultKwargs EXCEPT !.date_field = Some(<<"U", "p", "d", "a", "t", "e", "_", "t", "i", "m", "e", " ">>),
                           !.query = Some(<<" ">>)],
     [DefaultKwargs EXCEPT !.date_field = Some(W_create_time),
                           !.start_date = DDay(1), !.end_date = DDay(1)],
     [DefaultKwargs EXCEPT !.date_field = Some(W_update_time), !.query = Some(<<"b">>),
                           !.end_date = DUtc(90000)],
     [DefaultKwargs EXCEPT !.query = Some(<<"C", " ">>)],
     [DefaultKwargs EXCEPT !.start_date = DDay(1), !.end_date = DNaive(86400)],
     [DefaultKwargs EXCEPT !.start_date = DDay(1), !.end_date = DDay(1)],
     [DefaultKwargs EXCEPT !.start_date = DUtc(90000), !.end_date = DNaive(100000),
                           !.date_field = Some(<<"x">>)],
     [DefaultKwargs EXCEPT !.start_date = DDay(2), !.end_date = DDay(1)],
     [DefaultKwargs EXCEPT !.start_date = DBlank, !.end_date = DBad]}

ArchiveListKwargs ==
    {[DefaultKwargs EXCEPT !.action = Some(W_list_archived), !.limit = l] :
        l \in {LNone, LInt(1), LInt(100), LInt(0), LOther}}
    \cup {[DefaultKwargs EXCEPT !.action = Some(W_list_archived), !.limit = LInt(2),
                                !.query = Some(<<"b">>)],
          [DefaultKwargs EXCEPT !.action = Some(W_list_archived),
                                !.start_date = DBad]}

SearchCalls ==
    {[tool |-> "memos_search", ctx |-> CtxSender1, kw |-> k] : k \in SearchKwargs}
    \cup {[tool |-> "memos_archive", ctx |-> CtxSender1, kw |-> k] : k \in ArchiveListKwargs}

InitSearch == InitWith(SearchConfigs, SearchZones)

NextSearch ==
    \/ ConfigChange(SearchConfigs)
    \/ Call(SearchCalls, {"t1"})
    \/ RespondPage(SearchPool)
    \/ RespondError
    \/ Cancel
    \/ Finish

SpecSearch == InitSearch /\ [][NextSearch]_vars

----------------------------------------------------------------------------
(* Properties of the search pipeline (checked under SpecSearch). *)

\* The invocation returned an envelope with ok = true.
Succeeded == pc = "done" /\ ret.kind = "result" /\ ret.ok

\* The pages this invocation was given, in fetch order.
FetchedPages ==
    LET got == SelectSeq(responses, LAMBDA r : r.kind = "page")
    IN  [i \in 1..Len(got) |-> got[i].memos_page]

\* C1: the memos of a successful search are never more than the cap the
\* invocation read from the configuration, also when one page holds more
\* matching records than the cap.
Thm_C1_SearchNeverExceedsCap ==
    (Succeeded /\ tool = "memos_search")
        => /\ Len(ret.result.memos) <= loc.search_max_count
           /\ ret.result.search_max_count = loc.search_max_count
           /\ \E c \in SearchConfigs :
                 loc.search_max_count = _cfg_int(c, "search_max_count", DefaultSearchMaxCount)

\* A successful search with cap 1 whose only page held two records, both kept.
Wit_C1_PageLargerThanCap ==
    /\ Succeeded /\ tool = "memos_search"
    /\ loc.search_max_count = 1
    /\ Len(responses) = 1
    /\ loc.keyword_filtered_count = 2
    /\ Len(ret.result.memos) = 1

\* Both bounds of the invocation resolve and the start is after the end.
BoundsInverted ==
    LET s == _parse_date_bound(kwargs.start_date, FALSE, tz)
        e == _parse_date_bound(kwargs.end_date, TRUE, tz)
    IN  /\ ~s.err /\ ~e.err
        /\ s.dt.some /\ e.dt.some
        /\ s.dt.v > e.dt.v

\* C2: a search whose bounds both resolve with start > end returns ok = false
\* without ever sending a request to the note service.
Thm_C2_InvertedRangeNoRequest ==
    (pc # "idle" /\ tool = "memos_search" /\ BoundsInverted)
        => /\ pc = "done"
           /\ ret.kind = "result" /\ ~ret.ok
           /\ requests = <<>>
           /\ responses = <<>>

\* A range that is inverted only in the zone east of UTC: a UTC start and a
\* zoneless end, rejected without a request.
Wit_C2_InvertedInLocalZone ==
    /\ pc = "done" /\ tool = "memos_search"
    /\ BoundsInverted
    /\ kwargs.start_date.k = "utc" /\ kwargs.end_date.k = "naive"
    /\ ~ret.ok /\ requests = <<>>

\* Some page fetch of the invocation failed, or the invocation was cancelled
\* while one was outstanding.
FetchBroken == \E i \in 1..Len(responses) : responses[i].kind \in {"error", "cancel"}

\* C8: once a page fetch failed or the invocation was cancelled at a fetch,
\* the invocation does not return ok = true, and a result it returns has an
\* empty payload, whatever earlier pages contributed.
Thm_C8_NoPartialSuccess ==
    (pc = "done" /\ loc.op = "search" /\ FetchBroken)
        => /\ ~(ret.kind = "result" /\ ret.ok)
           /\ ret.kind = "result" => DOMAIN ret.result = {}

\* The second fetch failed after the first page had contributed a record.
Wit_C8_FailureAfterRecords ==
    /\ pc = "done" /\ loc.op = "search"
    /\ Len(responses) = 2
    /\ responses[2].kind = "error"
    /\ loc.result_memos # <<>>
    /\ ret.kind = "result" /\ ~ret.ok

\* The record passes the date and keyword filters of the invocation.
PassesFilters(m) ==
    /\ date_keep(m, loc.selected_date_field, loc.start_dt, loc.end_dt)
    /\ loc.query_text = <<>> \/ _memo_match_keyword(m, loc.query_text)

\* C9: pages are requested one at a time, the first without cursor and each
\* later one with the cursor the previous page returned; a successful search
\* returns the first min(C, n) records of the fetched pages, concatenated in
\* fetch order and filtered, in the collaborator's order.
Thm_C9_OrderedPrefixOfPages ==
    (pc # "idle" /\ loc.op = "search")
        => /\ Len(requests) = Len(responses) + (IF pc = "await" THEN 1 ELSE 0)
           /\ \A i \in 1..Len(requests) :
                 IF i = 1 THEN requests[i].params.pageToken = None
                 ELSE /\ responses[i - 1].kind = "page"
                      /\ Truthy(responses[i - 1].next_page_token)
                      /\ requests[i].params.pageToken = responses[i - 1].next_page_token
           /\ (Succeeded /\ tool = "memos_search")
                 => ret.result.memos =
                        Take(SelectSeq(Flatten(FetchedPages), PassesFilters),
                             loc.search_max_count)

\* A keyword search over two pages: a record of each page is returned, one
\* record was filtered out, the second request carried the first cursor.
Wit_C9_TwoPagesFiltered ==
    /\ Succeeded /\ tool = "memos_search"
    /\ Len(responses) = 2
    /\ loc.query_text # <<>>
    /\ Len(ret.result.memos) = 2
    /\ loc.scanned_count > loc.keyword_filtered_count
    /\ SelectSeq(responses[1].memos_page, PassesFilters) # <<>>
    /\ requests[2].params.pageToken = Some(<<"c", "1">>)

\* The limit archive_list works with: the requested one if a positive
\* integer, 20 otherwise.
RequestedLimit ==
    IF kwargs.limit.k = "int" /\ kwargs.limit.v > 0 THEN kwargs.limit.v ELSE 20

ConfiguredCap == _cfg_int(config, "search_max_count", DefaultSearchMaxCount)

\* C10: a successful archive_list returns the prefix of the underlying
\* search result of length at most min(L, C), reports its length as
\* matched_count and the mode archived_list; a failed search is passed on
\* as it is (ok = false, empty payload).
Thm_C10_ArchiveListClamp ==
    (pc = "done" /\ loc.via_archive_list /\ ret.kind = "result")
        => IF ret.ok
           THEN /\ Len(ret.result.memos) <= Min(RequestedLimit, ConfiguredCap)
                /\ ret.result.memos =
                       SubSeq(loc.result_memos, 1,
                              Min(Min(RequestedLimit, ConfiguredCap), Len(loc.result_memos)))
                /\ ret.result.matched_count = Len(ret.result.memos)
                /\ ret.result.query_mode = "archived_list"
           ELSE /\ DOMAIN ret.result = {}
                /\ ret.errors # <<>>
                /\ ret.trace_id = loc.trace_id

\* archive_list with limit 1 over a search that found more: one record back.
Wit_C10_TrimmedToLimit ==
    /\ Succeeded /\ loc.via_archive_list
    /\ kwargs.limit = LInt(1)
    /\ ConfiguredCap > 1
    /\ Len(loc.result_memos) > 1
    /\ Len(ret.result.memos) = 1

----------------------------------------------------------------------------
(* Properties of the gate and of the tool surface (checked under Spec). *)

\* The invocation was denied by the gate.
Denied == pc # "idle" /\ ~auth.allowed

\* C3: for every tool, a denial of the gate is all the invocation does: it
\* returns the denial at once, no body has run, no request was sent.
Thm_C3_DenialStopsInvocation ==
    Denied
        => /\ pc = "done"
           /\ loc = NoLoc
           /\ requests = <<>>
           /\ responses = <<>>
           /\ ret = _auth_denied_result(config, ret.trace_id, tool, auth.reason)
           /\ ~ret.ok /\ DOMAIN ret.result = {}

\* A denied update whose arguments the body would have rejected: the gate
\* came first.
Wit_C3_DeniedBeforeBody ==
    /\ Denied
    /\ tool = "memos_update"
    /\ ~kwargs.name.some
    /\ ret.kind = "result"

\* The comma-separated entries of the configured allow-list, trimmed.
AllowListText == IF config.allowed_uids.t = "str" THEN config.allowed_uids.s ELSE <<>>

AllowListEntries ==
    LET raw == AllowListText
    IN  {Strip(SubSeq(raw, i, j)) :
            <<i, j>> \in {p \in (1..(Len(raw) + 1)) \X (0..Len(raw)) :
                            /\ p[1] <= p[2] + 1
                            /\ p[1] = 1 \/ raw[p[1] - 1] = ","
                            /\ p[2] = Len(raw) \/ raw[p[2] + 1] = ","
                            /\ \A k \in p[1]..p[2] : raw[k] # ","}}

\* The entries made of digits only.
NumericEntries ==
    {e \in AllowListEntries : e # <<>> /\ \A k \in 1..Len(e) : e[k] \in Range(DigitChars)}

GateEnabled == _cfg_bool(config, "enable_uid_auth", FALSE)

CallerUid == _extract_uid_from_ctx(ctx)

CallerResolved == CallerUid.some /\ CallerUid.v # <<>>

\* What a result shows its reader: the messages and the steps of the trace.
ShownText(r) == Join(r.errors, <<"|">>) \o <<"|">> \o r.audit.steps

Mentions(r, text) == text # <<>> /\ Contains(ShownText(r), text)

\* C4: with the gate enabled and no numeric entry in the allow-list, every
\* caller is denied, a caller whose identifier resolves too, and the result
\* shows the identifier nowhere.
Thm_C4_EmptyAllowListFailsClosed ==
    (pc # "idle" /\ GateEnabled /\ NumericEntries = {})
        => /\ ~auth.allowed
           /\ pc = "done"
           /\ ret.kind = "result" /\ ~ret.ok
           /\ CallerResolved => ~Mentions(ret, CallerUid.v)

\* The caller "a" is denied for an allow-list that names "a": the entry is
\* not numeric, the list is empty after parsing.
Wit_C4_NonNumericListDeniesListedCaller ==
    /\ Denied
    /\ AllowListText # <<>>
    /\ CallerResolved
    /\ CallerUid.v \in AllowListEntries
    /\ auth.reason = <<"allowed_uids_empty">>

\* C5 (as claimed): the result of a denial shows neither the caller
\* identifier nor the internal reason, in any field.
CX_C5_DenialHidesReason ==
    Denied
        => /\ ~Mentions(ret, auth.reason)
           /\ auth.uid.some => ~Mentions(ret, auth.uid.v)

\* The decision the precedence of the gate prescribes.
ExpectedDecision ==
    IF ~GateEnabled THEN Decision(TRUE, <<"uid_auth_disabled">>, None, FALSE)
    ELSE IF ~CallerResolved
    THEN Decision(FALSE, <<"uid_missing_for_tool_", tool>>, None, TRUE)
    ELSE IF NumericEntries = {}
    THEN Decision(FALSE, <<"allowed_uids_empty">>, CallerUid, TRUE)
    ELSE IF CallerUid.v \notin NumericEntries
    THEN Decision(FALSE, <<"uid_not_allowed_for_tool_", tool>>, CallerUid, TRUE)
    ELSE Decision(TRUE, <<"uid_allowed">>, CallerUid, TRUE)

\* C6: the decision is the function of (flag, resolved identifier,
\* allow-list, tool) with the precedence disabled / identifier missing /
\* list empty / not in list / allowed; with the gate enabled a caller is
\* allowed iff its identifier resolves and is a numeric entry of the list.
Thm_C6_GatePrecedence ==
    pc # "idle"
        => /\ auth = ExpectedDecision
           /\ GateEnabled =>
                 (auth.allowed <=> (CallerResolved /\ CallerUid.v \in NumericEntries))

\* No identifier and an empty allow-list: the missing identifier is reported.
Wit_C6_MissingUidBeforeEmptyList ==
    /\ Denied
    /\ ~CallerResolved
    /\ NumericEntries = {}
    /\ auth.reason = <<"uid_missing_for_tool_", tool>>

\* C7 (as claimed): whatever fails, the invocation returns an envelope, and
\* a failed one has ok = false, an empty result and a message.
CX_C7_NoFaultEscapes ==
    (pc = "done" /\ ret.kind # "cancelled")
        => /\ ret.kind = "result"
           /\ ~ret.ok => (DOMAIN ret.result = {} /\ ret.errors # <<>>)

\* update went through the gate with a name and none of the three fields.
UpdateWithoutFields ==
    /\ pc # "idle"
    /\ tool = "memos_update"
    /\ auth.allowed
    /\ kwargs.name.some
    /\ ~kwargs.content.some /\ ~kwargs.visibility.some /\ ~kwargs.pinned.some

\* C11: update with content, visibility and pinned all absent returns
\* ok = false with the one message "at least one of content/visibility/pinned
\* is required" and sends no request, whatever the name.
Thm_C11_UpdateNeedsAField ==
    UpdateWithoutFields
        => /\ pc = "done"
           /\ ret.kind = "result" /\ ~ret.ok
           /\ DOMAIN ret.result = {}
           /\ ret.errors = << <<"at least one of content/visibility/pinned is required">> >>
           /\ requests = <<>> /\ responses = <<>>

\* The name is no resource name and the service is not configured: the
\* missing fields are still what is reported.
Wit_C11_NoFieldsBeforeNameAndClient ==
    /\ UpdateWithoutFields
    /\ ~StartsWith(kwargs.name.v, W_memos_prefix)
    /\ _build_client(config).err
    /\ pc = "done" /\ ~ret.ok

----------------------------------------------------------------------------
(* Further properties of the search pipeline (checked under SpecSearch). *)

\* A search by display_time, without keyword, whose two bounds are the same
\* calendar day.
SameDaySearch ==
    /\ pc # "idle" /\ tool = "memos_search"
    /\ ~kwargs.date_field.some /\ ~kwargs.query.some
    /\ kwargs.start_date.k = "day"
    /\ kwargs.end_date = kwargs.start_date

\* Local midnight and local 23:59:59 of the day, as UTC epoch seconds.
DayOpens == kwargs.start_date.v * 86400 - tz

DayCloses == DayOpens + 86399

\* The note service applied the day's window to every page it returned.
ServiceAppliedDayWindow ==
    \A i \in 1..Len(FetchedPages) : \A j \in 1..Len(FetchedPages[i]) :
        LET t == FetchedPages[i][j].display_time
        IN  t.k = "iso" /\ DayOpens <= t.t /\ t.t <= DayCloses

\* C12: with display_time and start_date = end_date = the day D, every page
\* request carries the window [local midnight of D, local 23:59:59 of D] in
\* UTC epoch seconds; a fetched record displayed at local noon of D is
\* returned (while the cap leaves room), and, the note service applying the
\* window it was sent, no record displayed one second after the window is.
Thm_C12_SameDayWindow ==
    SameDaySearch
        => /\ \A i \in 1..Len(requests) :
                 requests[i].params.oldFilter =
                     Some(<<"display_time_after == ", ToString(DayOpens), " && ",
                            "display_time_before == ", ToString(DayCloses)>>)
           /\ Succeeded =>
                 /\ \A i \in 1..Len(FetchedPages) : \A j \in 1..Len(FetchedPages[i]) :
                       FetchedPages[i][j].display_time = TIso(DayOpens + 12 * 3600)
                           => \/ \E k \in 1..Len(ret.result.memos) :
                                     ret.result.memos[k] = FetchedPages[i][j]
                              \/ Len(ret.result.memos) >= loc.search_max_count
                 /\ ServiceAppliedDayWindow
                       => \A k \in 1..Len(ret.result.memos) :
                             ret.result.memos[k].display_time # TIso(DayCloses + 1)

\* East of UTC: the service applied the window and the record of local noon
\* came back.
Wit_C12_LocalNoonIncluded ==
    /\ SameDaySearch /\ Succeeded
    /\ tz = 8 * 3600
    /\ ServiceAppliedDayWindow
    /\ \E k \in 1..Len(ret.result.memos) :
          ret.result.memos[k].display_time = TIso(DayOpens + 12 * 3600)
    /\ \E m \in SearchPool : _sanitize_memo(m).display_time = TIso(DayCloses + 1)

\* The date-field selector of the invocation, as the caller's argument
\* gives it: trimmed and case-folded, display_time when absent, empty or
\* unrecognized.
SelectedField ==
    LET given == IF kwargs.date_field.some /\ kwargs.date_field.v # <<>>
                 THEN Lower(Strip(kwargs.date_field.v)) ELSE W_display_time
    IN  IF given = W_create_time THEN "create_time"
        ELSE IF given = W_update_time THEN "update_time"
        ELSE "display_time"

\* The record survives the plugin-side date filter: nothing is filtered for
\* display_time; otherwise the selected timestamp parses and lies within the
\* bounds that are present.
SurvivesDate(m) ==
    \/ SelectedField = "display_time"
    \/ /\ m[SelectedField].k = "iso"
       /\ loc.start_dt.some => loc.start_dt.v <= m[SelectedField].t
       /\ loc.end_dt.some => m[SelectedField].t <= loc.end_dt.v

\* The query of the invocation, trimmed and case-folded.
FoldedQuery == Lower(Strip(IF kwargs.query.some THEN kwargs.query.v ELSE <<>>))

\* Content, snippet and space-joined tags put end to end.
PlainText(m) == m.content \o m.snippet \o Join(m.tags, <<" ">>)

\* Content, snippet and space-joined tags, one per line.
LinedText(m) == m.content \o <<"\n">> \o m.snippet \o <<"\n">> \o Join(m.tags, <<" ">>)

\* What a successful search returns when a record matches iff the folded
\* query is empty or occurs in the folded text(m).
ReturnsMatchesOf(text(_)) ==
    (Succeeded /\ tool = "memos_search")
        => ret.result.memos =
              Take(SelectSeq(Flatten(FetchedPages),
                       LAMBDA m : /\ SurvivesDate(m)
                                  /\ \/ FoldedQuery = <<>>
                                     \/ Contains(Lower(text(m)), FoldedQuery)),
                   loc.search_max_count)

----------------------------------------------------------------------------
(* Further properties of the tool surface (checked under Spec). *)

\* Auditing is enabled: the flag is absent, true, or one of the words that
\* stand for true.
AuditEnabled ==
    LET v == config.enable_ai_audit_log
    IN  CASE v.t = "bool" -> v.b
          [] v.t = "str" -> Lower(v.s) \in TruthyWords
          [] OTHER -> TRUE

\* The configured maximum length of the steps text, 2000 unless a positive
\* integer is configured.
AuditMaxChars ==
    LET v == config.ai_audit_log_max_chars
    IN  IF v.t = "int" /\ v.n > 0 THEN v.n ELSE 2000

\* The steps the operation handed to the audit builder: its step list, with
\* the step the inverted-range return adds on the fly.
AuditedSteps ==
    IF ret.errors = << <<"start_date must be earlier than or equal to end_date">> >>
    THEN Append(loc.steps, <<"error invalid_range start_after_end">>)
    ELSE loc.steps

\* C14: a result carries a trace iff auditing is enabled; the steps text of
\* the trace is the steps joined by line breaks when that is at most M long,
\* and otherwise its first M characters followed by the truncation marker,
\* so that it is never longer than M plus the marker.
Thm_C14_AuditTruncated ==
    (pc = "done" /\ ret.kind = "result")
        => /\ ret.audit.present <=> AuditEnabled
           /\ ret.audit.present =>
                 /\ ret.audit.trace_id = ret.trace_id
                 /\ Len(ret.audit.steps) <= AuditMaxChars + 1
                 /\ loc.steps # <<>> =>
                       LET joined == Join(AuditedSteps, <<"\n">>)
                       IN  ret.audit.steps =
                              IF Len(joined) <= AuditMaxChars THEN joined
                              ELSE SubSeq(joined, 1, AuditMaxChars) \o <<"...">>

\* A trace cut at the configured maximum, marker appended.
Wit_C14_TraceCut ==
    /\ pc = "done" /\ ret.kind = "result"
    /\ ret.audit.present
    /\ loc.steps # <<>>
    /\ Len(Join(AuditedSteps, <<"\n">>)) > AuditMaxChars
    /\ Len(ret.audit.steps) = AuditMaxChars + 1
    /\ ret.audit.steps[AuditMaxChars + 1] = "..."

\* C15 (as claimed): an invocation that starts is served as the current
\* configuration prescribes: the tool invoked is one the current
\* configuration enables, and the gate decides by the current values.
CX_C15_NextCallSeesConfig ==
    [][(pc = "idle" /\ pc' # "idle")
          => /\ tool' \in registered_tools(config)
             /\ auth' = _check_tool_permission(config, ctx', tool')]_vars

\* Labels a caller or the configuration may give: absent, empty, the three
\* labels, other spellings of them, and words that are no label.
LabelInputs ==
    {None, Some(<<>>), Some(W_workspace), Some(W_private), Some(W_public),
     Some(<<" ", "P", "u", "b", "l", "i", "c", " ">>),
     Some(<<"P", "R", "I", "V", "A", "T", "E">>),
     Some(<<"x">>),
     Some(<<"p", "r", "o", "t", "e", "c", "t", "e", "d">>)}

\* The label a raw value stands for: private or public when it spells one
\* of them, workspace otherwise.
ExpectedLabel(raw) ==
    LET t == Lower(Strip(IF raw.some THEN raw.v ELSE <<>>))
    IN  IF t \in {W_private, W_public} THEN t ELSE W_workspace

ExpectedApi(raw) ==
    CASE ExpectedLabel(raw) = W_private -> "PRIVATE"
      [] ExpectedLabel(raw) = W_public -> "PUBLIC"
      [] OTHER -> "PROTECTED"

\* The default label of the configuration.
ConfiguredLabel ==
    IF config.default_visibility.t = "str"
    THEN Some(config.default_visibility.s) ELSE Some(W_workspace)

\* C16: workspace maps to PROTECTED, private to PRIVATE, public to PUBLIC;
\* an unrecognized, empty or absent label normalizes to workspace;
\* normalization is idempotent and mapping a label equals mapping its
\* normalization; create and update send the API value of the label given.
Thm_C16_VisibilityMapping ==
    /\ pc = "idle" => \A raw \in LabelInputs :
          /\ normalize_visibility_label(raw) = ExpectedLabel(raw)
          /\ normalize_visibility_label(Some(normalize_visibility_label(raw)))
                = normalize_visibility_label(raw)
          /\ raw.some =>
                /\ map_visibility_label_to_api(raw.v) = ExpectedApi(raw)
                /\ map_visibility_label_to_api(raw.v)
                      = map_visibility_label_to_api(normalize_visibility_label(raw))
    /\ (pc # "idle" /\ tool = "memos_create" /\ requests # <<>>)
          => requests[1].body.visibility =
                ExpectedApi(IF kwargs.visibility.some /\ kwargs.visibility.v # <<>>
                            THEN kwargs.visibility ELSE ConfiguredLabel)
    /\ (pc # "idle" /\ tool = "memos_update" /\ requests # <<>> /\ kwargs.visibility.some)
          => requests[1].body.visibility = ExpectedApi(kwargs.visibility)

\* A memo created with a word that is no label goes out as PROTECTED.
Wit_C16_UnknownLabelProtected ==
    /\ pc # "idle" /\ tool = "memos_create" /\ requests # <<>>
    /\ kwargs.visibility.some
    /\ Lower(Strip(kwargs.visibility.v)) \notin {W_workspace, W_private, W_public}
    /\ requests[1].body.visibility = "PROTECTED"

----------------------------------------------------------------------------
(* The page loop (checked under SpecSearch). *)

\* The record passes the date filter and the keyword filter of the
\* invocation.
Kept(m) ==
    /\ SurvivesDate(m)
    /\ FoldedQuery = <<>> \/ Contains(Lower(LinedText(m)), FoldedQuery)

\* How many records of the first i answers were kept.
KeptUpTo(i) ==
    Len(SelectSeq(Flatten([j \in 1..i |-> responses[j].memos_page]), Kept))

\* C17: after a page was fetched another page is requested iff the page was
\* not empty, the records kept so far are fewer than the cap the invocation
\* works with, and the page carried a continuation cursor.
Thm_C17_LoopStopsExactly ==
    (pc # "idle" /\ loc.op = "search")
        => \A i \in 1..Len(responses) :
              responses[i].kind = "page"
                 => (Len(requests) > i
                        <=> /\ responses[i].memos_page # <<>>
                            /\ KeptUpTo(i) < loc.search_max_count
                            /\ responses[i].next_page_token.some
                            /\ responses[i].next_page_token.v # <<>>)

\* The cap was reached on a page that carried a cursor: no further request.
Wit_C17_CapReachedWithCursor ==
    /\ Succeeded /\ loc.op = "search"
    /\ Len(responses) = 1 /\ Len(requests) = 1
    /\ responses[1].next_page_token.some /\ responses[1].next_page_token.v # <<>>
    /\ KeptUpTo(1) >= loc.search_max_count

\* The steps that name a stop condition of the page loop.
StopReasonSteps ==
    {"stop_reason=reach_search_max_count", "stop_reason=empty_page",
     "stop_reason=no_more_pages"}

\* C18 (as claimed): the trace of every successful search holds a step that
\* names the stop condition that ended the page loop.
CX_C18_StopReasonRecorded ==
    (Succeeded /\ loc.op = "search" /\ ret.audit.present
       /\ Len(ret.audit.steps) <= AuditMaxChars)
        => \E k \in 1..Len(ret.audit.steps) : ret.audit.steps[k] \in StopReasonSteps

\* A bound of the invocation is present.
BoundGiven(raw) == raw.k \notin {"none", "blank"}

\* C19: a server-side date filter goes with the page requests iff the
\* selector is display_time and a bound is present, and then nothing is
\* filtered by date locally; for create_time and update_time no server-side
\* filter is sent and a record survives iff its selected timestamp parses
\* and lies within the bounds present, both inclusive.
Thm_C19_FilterSplit ==
    (pc # "idle" /\ loc.op = "search" /\ requests # <<>>)
        => /\ \A i \in 1..Len(requests) :
                 requests[i].params.oldFilter.some
                    <=> /\ SelectedField = "display_time"
                        /\ BoundGiven(kwargs.start_date) \/ BoundGiven(kwargs.end_date)
           /\ loc.date_filtered_count
                 = Len(SelectSeq(Flatten(FetchedPages), SurvivesDate))
           /\ SelectedField = "display_time" => loc.date_filtered_count = loc.scanned_count
           /\ Succeeded =>
                 \A k \in 1..Len(ret.result.memos) : SurvivesDate(ret.result.memos[k])

\* update_time without bounds: a record without that timestamp was fetched
\* and dropped, another one was returned.
Wit_C19_MissingTimestampDropped ==
    /\ Succeeded /\ tool = "memos_search"
    /\ SelectedField = "update_time"
    /\ ~BoundGiven(kwargs.start_date) /\ ~BoundGiven(kwargs.end_date)
    /\ \E i \in 1..Len(FetchedPages) : \E j \in 1..Len(FetchedPages[i]) :
          FetchedPages[i][j].update_time.k # "iso"
    /\ loc.date_filtered_count < loc.scanned_count
    /\ ret.result.memos # <<>>

----------------------------------------------------------------------------
(* Draining the pages: search and archive_list against a note service     *)
(* that answers every page request with a page and runs out of pages      *)
(* after MaxPages at most. The invocation resumes whenever its request is *)
(* answered, hence the weak fairness of the answer.                       *)

NextDrain ==
    \/ Call(SearchCalls, {"t1"})
    \/ RespondPage(SearchPool)
    \/ Finish

SpecDrain ==
    /\ InitSearch
    /\ [][NextDrain]_vars
    /\ WF_vars(RespondPage(SearchPool))

\* C20: an invocation waiting for a page eventually returns a result, and
\* it never requests more pages than the note service has.
Thm_C20_DrainTerminates ==
    /\ (pc = "await") ~> (pc = "done" /\ ret.kind = "result")
    /\ [](Len(requests) <= MaxPages)

\* Every page the service had was fetched: the pages were not empty, carried
\* a cursor while there was one, and left the result below the cap.
Wit_C20_AllPagesFetched ==
    /\ Succeeded /\ loc.op = "search"
    /\ Len(requests) = MaxPages
    /\ \A i \in 1..Len(responses) : responses[i].memos_page # <<>>
    /\ Len(loc.result_memos) < loc.search_max_count

====
